---- MODULE Spec2Model ----
(***************************************************************************)
(* Earth Insights Explorer (terra): the two-stage pipeline behind          *)
(* getLocationData.                                                        *)
(*                                                                         *)
(*   stage 1  src/lib/actions.ts          fetchNasaPowerData, fetchFireData,*)
(*                                        extractPowerValue,               *)
(*                                        fetchEnvironmentalData           *)
(*   stage 2  src/ai/flows/ai-orchestrator.ts   orchestratorFlow and the   *)
(*                                        six generation tasks it fans out *)
(*                                                                         *)
(* Numbers are fixed-point integers in units of 1e-6 (U = 1.0), so that    *)
(* toFixed(2) is a real rounding step.  JavaScript values that may be      *)
(* undefined or null are tagged records (Undef, Null, Num(v)).             *)
(***************************************************************************)
EXTENDS Integers, Sequences, FiniteSets, TLC

\* ------------------------------------------------------------------ bounds
\* Largest number of date keys the climate archive returns in one payload.
MaxDates == 3
\* Largest number of data lines (after the CSV header) the fire feed returns.
MaxFires == 11
\* Largest number of consecutive getLocationData calls of one client.
MaxCalls == 2

\* ------------------------------------------------------------- fixed point
U == 1000 * 1000
\* x hundredths as a fixed-point number
H(x) == x * 10000

Undef == [t |-> "undefined"]
Null == [t |-> "null"]
Num(v) == [t |-> "number", v |-> v]

Min2(a, b) == IF a < b THEN a ELSE b
Max2(a, b) == IF a > b THEN a ELSE b

\* Number.prototype.toFixed(2) followed by parseFloat: round to the nearest
\* hundredth, ties away from zero.
toFixed2(x) ==
    IF x >= 0 THEN ((x + 5000) \div 10000) * 10000
              ELSE 0 - (((0 - x) + 5000) \div 10000) * 10000

\* ---------------------------------------------------------- actions.ts 7-11
FORECAST_DAYS == 5
NASA_FILL_VALUE == (0 - 999) * U
DEFAULT_TEMPERATURE == 20 * U

Params == {"TS_DAY_MODIS", "NDVI_MODIS", "PRECTOTCORR", "AOD_550_MISR",
           "CO_COLUMN_MOPITT", "T2M_MAX", "T2M_MIN"}

\* The key '' that fetchEnvironmentalData uses when a date is not available.
NoKey == 0

\* ------------------------------------------------ Math.random() in [0, 1)
Rand == {0, U - 1000}

\* ----------------------------------------------------- extractPowerValue
\* powerData?.properties?.parameter?.[param]?.[dateKey]
Lookup(powerData, param, dateKey) ==
    IF powerData.t # "object" THEN Undef
    ELSE IF ~powerData.props THEN Undef
    ELSE IF dateKey \notin 1..powerData.n THEN Undef
    ELSE powerData.param[param][dateKey]

\* JavaScript truthiness of a looked-up value (undefined and 0 are falsy).
Truthy(value) == value.t = "number" /\ value.v # 0

\* powerData.header?.fill_value ?? CONSTANTS.NASA_FILL_VALUE
FillValueOf(powerData) ==
    IF powerData.fill.t = "number" THEN powerData.fill.v ELSE NASA_FILL_VALUE

extractPowerValue(powerData, param, dateKey, fallback) ==
    LET value == Lookup(powerData, param, dateKey) IN
    IF ~Truthy(value) THEN toFixed2(fallback)
    ELSE IF value.t = "number" /\ value.v # FillValueOf(powerData)
         THEN toFixed2(value.v)
         ELSE toFixed2(fallback)

\* ------------------------------------------------------- fetchNasaPowerData
\* What the climate archive answers: a parsed JSON body, or a failure.
\*   ok        2xx and response.json() parses          -> the body
\*   http      non-2xx                                  -> null
\*   network   fetch rejects (DNS, reset)               -> null (catch)
\*   badjson   response.json() rejects                  -> null (catch)
NasaFailKinds == {"http", "network", "badjson"}

fetchNasaPowerData_NoKey == Null

\* `if (!apiKey)` of both clients (actions.ts 47, 104): the credential is set.
apiKeySet_Unchecked(key) == TRUE

apiKeySet(key) == key

\* The client without its try/catch: a rejected fetch or json() escapes.
fetchNasaPowerData_Result_NoCatch(resp) ==
    IF resp.kind = "ok" THEN resp.body
    ELSE IF resp.kind = "http" THEN Null
    ELSE [t |-> "exception"]

fetchNasaPowerData_Result(resp) ==
    IF resp.kind = "ok" THEN resp.body ELSE Null

\* ------------------------------------------------------------ fetchFireData
\* The thresholds taken inclusive (>= 10, >= 5).
fireRiskOf_Inclusive(activeFires) ==
    IF activeFires >= 10 THEN "very-high"
    ELSE IF activeFires >= 5 THEN "high"
    ELSE IF activeFires > 0 THEN "medium"
    ELSE "low"

fireRiskOf(activeFires) ==
    IF activeFires > 10 THEN "very-high"
    ELSE IF activeFires > 5 THEN "high"
    ELSE IF activeFires > 0 THEN "medium"
    ELSE "low"

fetchFireData_NoKey == [activeFires |-> 0, fireRisk |-> "low"]

\* A catch block that answers like the non-2xx branch.
fetchFireData_Result_CatchLow(resp) ==
    IF resp.kind = "ok" THEN
        LET activeFires == IF resp.lines > 1 THEN resp.lines - 1 ELSE 0 IN
        [activeFires |-> activeFires, fireRisk |-> fireRiskOf(activeFires)]
    ELSE [activeFires |-> 0, fireRisk |-> "low"]

\* resp.lines is text.trim().split('\n').length (at least 1).
fetchFireData_Result(resp) ==
    IF resp.kind = "http" THEN [activeFires |-> 0, fireRisk |-> "low"]
    ELSE IF resp.kind = "ok" THEN
        LET activeFires == IF resp.lines > 1 THEN resp.lines - 1 ELSE 0 IN
        [activeFires |-> activeFires, fireRisk |-> fireRiskOf(activeFires)]
    ELSE [activeFires |-> 0, fireRisk |-> "unknown"]

FireFailKinds == {"http", "network"}

\* --------------------------------------------------- fetchEnvironmentalData
Fulfilled(v) == [status |-> "fulfilled", value |-> v]
Pending == [status |-> "pending"]

\* Object.keys(nasaData.properties.parameter.TS_DAY_MODIS).sort()
DateKeys(nasaData) ==
    IF nasaData.t = "object" /\ nasaData.props
    THEN [i \in 1..nasaData.n |-> i]
    ELSE << >>

RECURSIVE SumPrecip(_, _, _)
SumPrecip(nasaData, dateKeys, i) ==
    IF i > Len(dateKeys) THEN 0
    ELSE extractPowerValue(nasaData, "PRECTOTCORR", dateKeys[i], 0)
         + SumPrecip(nasaData, dateKeys, i + 1)

\* dateKeys.map(...).reduce(...) / dateKeys.length, or Math.random() * 10
avgPrecipOf(nasaData, dateKeys, rnd) ==
    IF Len(dateKeys) > 0
    THEN SumPrecip(nasaData, dateKeys, 1) \div Len(dateKeys)
    ELSE rnd.precip * 10

\* dateKeys[dateKeys.length - 5 + index] || ''      (index is 0-based)
ForecastKey(dateKeys, index) ==
    LET pos == Len(dateKeys) - 5 + index IN
    IF pos >= 0 /\ pos < Len(dateKeys) THEN dateKeys[pos + 1] ELSE NoKey

\* The earlier revision: dateKeys.slice(-5).map(...), one entry per date.
forecastIndices_Slice(dateKeys) == 1 .. Min2(FORECAST_DAYS, Len(dateKeys))

\* Array.from({ length: CONSTANTS.FORECAST_DAYS }, ...): the entries built.
forecastIndices(dateKeys) == 1 .. FORECAST_DAYS

\* rnd: the Math.random() draws of one call, one field per call site.
fetchEnvironmentalData(powerData, fireDataResult, rnd, now) ==
    LET nasaData == IF powerData.status = "fulfilled" THEN powerData.value ELSE Null
        fireInfo == IF fireDataResult.status = "fulfilled"
                    THEN fireDataResult.value
                    ELSE [activeFires |-> 0, fireRisk |-> "unknown"]
        dateKeys == DateKeys(nasaData)
        todayKey == IF Len(dateKeys) >= 3 THEN dateKeys[Len(dateKeys) - 2] ELSE NoKey
        currentTemp == extractPowerValue(nasaData, "TS_DAY_MODIS", todayKey,
                                         DEFAULT_TEMPERATURE + rnd.temp * 10)
        forecast == [i \in forecastIndices(dateKeys) |->
            LET key == ForecastKey(dateKeys, i - 1) IN
            [day |-> i - 1 - 2,
             temp |-> extractPowerValue(nasaData, "TS_DAY_MODIS", key,
                                        currentTemp + rnd.fc[i] * 4 - 2 * U),
             max |-> extractPowerValue(nasaData, "T2M_MAX", key, currentTemp + 5 * U),
             min |-> extractPowerValue(nasaData, "T2M_MIN", key, currentTemp - 5 * U),
             condition |-> "Varies"]]
        avgPrecip == avgPrecipOf(nasaData, dateKeys, rnd)
        soilMoisture == IF avgPrecip > U
                        THEN rnd.soil \div 2 + H(20)
                        ELSE (rnd.soil * 3) \div 10
        ndvi == extractPowerValue(nasaData, "NDVI_MODIS", todayKey,
                    Min2(H(90), Max2(H(10), (soilMoisture * 12) \div 10)))
    IN
    [airQuality |->
        [aerosolIndex |-> extractPowerValue(nasaData, "AOD_550_MISR", todayKey,
                                            rnd.aod \div 2),
         co |-> extractPowerValue(nasaData, "CO_COLUMN_MOPITT", todayKey,
                                  rnd.co \div 20)],
     soil |->
        [moisture |-> toFixed2(soilMoisture),
         temperature |-> currentTemp,
         ph |-> toFixed2(H(550) + rnd.ph * 2),
         nitrogen |-> toFixed2(10 * U + soilMoisture * 40),
         phosphorus |-> toFixed2(5 * U + soilMoisture * 20),
         potassium |-> toFixed2(20 * U + soilMoisture * 50)],
     fire |-> fireInfo,
     water |->
        [surfaceWater |-> toFixed2(Min2(H(90), (soilMoisture * 3) \div 2)),
         precipitation |-> toFixed2(avgPrecip)],
     weather |-> [currentTemp |-> currentTemp, forecast |-> forecast],
     vegetation |-> [ndvi |-> toFixed2(ndvi)],
     lastUpdated |-> now]

\* =========================================================================
\* Stage 2: the generation tasks and orchestratorFlow (ai-orchestrator.ts)
\* =========================================================================
Str(s) == [t |-> "string", v |-> s]
Rejected == [status |-> "rejected"]

\* aiCalls, in the order of ai-orchestrator.ts 67-74.
Tasks == <<"futureTrendPredictions", "getCropRecommendations", "aiRiskAssessment",
           "getSimplifiedExplanation", "aiEnvironmentalSolutions", "healthAdvisory">>
TaskSet == {Tasks[i] : i \in 1..Len(Tasks)}

\* The text a task's provider generates when it answers well.
GenText(task) ==
    CASE task = "futureTrendPredictions" -> Str("generated predictions")
      [] task = "getCropRecommendations" -> Str("generated crop recommendations")
      [] task = "aiRiskAssessment" -> Str("generated risk assessment")
      [] task = "getSimplifiedExplanation" -> Str("generated explanation")
      [] task = "aiEnvironmentalSolutions" -> Str("generated solutions")
      [] task = "healthAdvisory" -> Str("generated health advisory")

\* What prompt(...) yields: {output} with the text field, with an empty text,
\* without the text field, or output = null; or the call rejects (provider
\* error, transport timeout).
OutText(task) == [t |-> "object", has |-> TRUE, text |-> GenText(task)]
OutEmpty == [t |-> "object", has |-> TRUE, text |-> Str("")]
OutNoField == [t |-> "object", has |-> FALSE]

ProviderOutcomes(task) ==
    {[kind |-> "output", output |-> o] :
        o \in {OutText(task), OutEmpty, OutNoField, Null}}
    \cup {[kind |-> "error"]}

\* z.object({<field>: z.string()}) applied to a flow's return value.
outputSchemaAccepts(output) == output.t = "object" /\ output.has

\* A task defined with ai.defineFlow({outputSchema}, async input =>
\* { const {output} = await prompt(input); return output!; }).
flowTask(po) ==
    IF po.kind = "error" THEN Rejected
    ELSE IF ~outputSchemaAccepts(po.output) THEN Rejected
    ELSE Fulfilled(po.output)

\* A task that is a plain async function returning output! of the prompt.
promptTask(po) ==
    IF po.kind = "error" THEN Rejected ELSE Fulfilled(po.output)

futureTrendPredictions(po) == flowTask(po)
getCropRecommendations(po) == promptTask(po)
aiRiskAssessment(po) == flowTask(po)
getSimplifiedExplanation(po) == flowTask(po)
aiEnvironmentalSolutions(po) == promptTask(po)
healthAdvisory(po) == flowTask(po)

\* The settlement of one generation task, given its provider's answer.
TaskSettlement(task, po) ==
    CASE task = "futureTrendPredictions" -> futureTrendPredictions(po)
      [] task = "getCropRecommendations" -> getCropRecommendations(po)
      [] task = "aiRiskAssessment" -> aiRiskAssessment(po)
      [] task = "getSimplifiedExplanation" -> getSimplifiedExplanation(po)
      [] task = "aiEnvironmentalSolutions" -> aiEnvironmentalSolutions(po)
      [] task = "healthAdvisory" -> healthAdvisory(po)

\* ---------------------------------------------------------- generateSummary
TypeError == [t |-> "TypeError"]

SnapshotFields == {"airQuality", "soil", "fire", "water", "weather", "vegetation"}

\* data.location.name || `${lat.toFixed(2)}, ${lng.toFixed(2)}`
summaryLocationName(loc) ==
    IF loc.name.t = "string" /\ loc.name.v # ""
    THEN loc.name
    ELSE [t |-> "coords", lat |-> toFixed2(loc.lat), lng |-> toFixed2(loc.lng)]

\* The summary sentence, as the values its template interpolates.  Reading
\* data.location.name of an argument without location (line 35), or
\* data.airQuality.aerosolIndex of one without airQuality (line 37), throws.
generateSummary(data) ==
    IF ~(({"location"} \cup SnapshotFields) \subseteq DOMAIN data) THEN TypeError
    ELSE
    [t |-> "summary",
     locationName |-> summaryLocationName(data.location),
     airQualityStatus |->
        IF data.airQuality.aerosolIndex < H(10) THEN "clear"
        ELSE IF data.airQuality.aerosolIndex < H(30) THEN "hazy"
        ELSE "very hazy or smoky",
     aerosolIndex |-> data.airQuality.aerosolIndex,
     vegetationStatus |->
        IF data.vegetation.ndvi > H(60) THEN "thriving"
        ELSE IF data.vegetation.ndvi > H(40) THEN "healthy"
        ELSE IF data.vegetation.ndvi > H(20) THEN "stressed"
        ELSE "critical",
     ndvi |-> toFixed2(data.vegetation.ndvi),
     soilHealth |->
        IF /\ data.soil.ph >= H(600) /\ data.soil.ph <= H(750)
           /\ data.soil.moisture > H(30) /\ data.soil.moisture < H(70)
        THEN "optimal" ELSE "suboptimal",
     moisture |-> data.soil.moisture,
     ph |-> data.soil.ph,
     fireRisk |-> data.fire.fireRisk,
     activeFires |-> data.fire.activeFires,
     precipitation |-> data.water.precipitation,
     currentTemp |-> data.weather.currentTemp]

\* ------------------------------------------- orchestratorFlow, lines 92-112
\* The fallback sentence of each task.
FallbackText(task, input) ==
    CASE task = "futureTrendPredictions" ->
            Str("Future trend analysis is temporarily unavailable.")
      [] task = "getCropRecommendations" ->
            Str("Crop recommendations are being processed.")
      [] task = "aiRiskAssessment" ->
            Str("Risk assessment in progress.")
      [] task = "getSimplifiedExplanation" ->
            [t |-> "template",
             v |-> "Environmental conditions at ${name} are being analyzed.",
             name |-> input.location.name]
      [] task = "aiEnvironmentalSolutions" ->
            Str("Environmental solutions are being formulated.")
      [] task = "healthAdvisory" ->
            Str("Health advisory is currently unavailable.")

\* The output key each task's text is stored under.
OutputKey(task) ==
    CASE task = "futureTrendPredictions" -> "futurePredictions"
      [] task = "getCropRecommendations" -> "cropRecommendations"
      [] task = "aiRiskAssessment" -> "riskAssessment"
      [] task = "getSimplifiedExplanation" -> "simplifiedExplanation"
      [] task = "aiEnvironmentalSolutions" -> "environmentalSolutions"
      [] task = "healthAdvisory" -> "healthAdvisory"

TextKeys == {OutputKey(task) : task \in TaskSet}

\* result.status === 'fulfilled' ? result.value.<field> : <fallback>
\* (reading a field of a null value throws a TypeError)
FieldOrFallback(result, fallback) ==
    IF result.status = "fulfilled"
    THEN IF result.value.t = "null" THEN TypeError
         ELSE IF result.value.has THEN result.value.text
         ELSE Undef
    ELSE fallback

\* The same, with the guard of the earlier revision (lines 369-379): a
\* fulfilled value without usable text also gets the fallback.
FieldOrFallback_Guarded(result, fallback) ==
    IF result.status = "fulfilled" /\ result.value.t = "object"
       /\ result.value.has /\ result.value.text # Str("")
    THEN result.value.text
    ELSE fallback

Returned(v) == [status |-> "returned", value |-> v]
Thrown(e) == [status |-> "thrown", error |-> e]

\* Promise.all(aiCalls): settles on the first rejection.
JoinReady_PromiseAll(res) ==
    \/ \A task \in TaskSet : res[task].status = "fulfilled"
    \/ \E task \in TaskSet : res[task].status = "rejected"

\* Promise.allSettled(aiCalls) resolves once no call is pending.
JoinReady(res) == \A task \in TaskSet : res[task].status # "pending"

\* The destructuring of results (lines 79-86) with its first two names
\* exchanged: the trend and crop fields read each other's task.
orchestratorFlow_Body_Swapped(input, res) ==
    LET summary == generateSummary(input)
        field == [task \in TaskSet |->
                    FieldOrFallback(res[task], FallbackText(task, input))]
    IN
    IF summary.t = "TypeError" THEN Thrown("TypeError")
    ELSE IF \E task \in TaskSet : field[task].t = "TypeError" THEN Thrown("TypeError")
    ELSE IF \E task \in TaskSet : field[task].t = "undefined"
         THEN Thrown("outputSchema")
    ELSE Returned(
        [summary |-> summary,
         futurePredictions |-> field["getCropRecommendations"],
         cropRecommendations |-> field["futureTrendPredictions"],
         riskAssessment |-> field["aiRiskAssessment"],
         simplifiedExplanation |-> field["getSimplifiedExplanation"],
         environmentalSolutions |-> field["aiEnvironmentalSolutions"],
         healthAdvisory |-> field["healthAdvisory"]])

\* Lines 88-121, then the flow's outputSchema (every key a string).
orchestratorFlow_Body(input, res) ==
    LET summary == generateSummary(input)
        field == [task \in TaskSet |->
                    FieldOrFallback(res[task], FallbackText(task, input))]
    IN
    IF summary.t = "TypeError" THEN Thrown("TypeError")
    ELSE IF \E task \in TaskSet : field[task].t = "TypeError" THEN Thrown("TypeError")
    ELSE IF \E task \in TaskSet : field[task].t = "undefined"
         THEN Thrown("outputSchema")
    ELSE Returned(
        [summary |-> summary,
         futurePredictions |-> field["futureTrendPredictions"],
         cropRecommendations |-> field["getCropRecommendations"],
         riskAssessment |-> field["aiRiskAssessment"],
         simplifiedExplanation |-> field["getSimplifiedExplanation"],
         environmentalSolutions |-> field["aiEnvironmentalSolutions"],
         healthAdvisory |-> field["healthAdvisory"]])

\* ------------------------------------------------ getLocationData, 314-346
\* The argument getLocationData passes to aiInsightsOrchestrator (320-323).
getLocationData_OrchestratorArg(loc, environmentalData) ==
    [location |-> loc, environmentalData |-> environmentalData]

\* The argument shape orchestratorFlow reads (its parameter type
\* EnvironmentalData, with the location the summary and the prompts use).
SnapshotWithLocation(loc, environmentalData) ==
    [location |-> loc] @@ environmentalData

\* return { ...environmentalData, ...aiInsights }
getLocationData_Merge(environmentalData, aiInsights) ==
    Returned(aiInsights @@ environmentalData)

\* A catch block that rethrows, as in the Promise.all revision.
getLocationData_Catch_Rethrow(environmentalData) ==
    Thrown("Failed to get data from services.")

\* The catch block (329-345), given the snapshot of its own acquisition.
getLocationData_Catch(environmentalData) ==
    Returned(
        [summary |-> Str("AI insights temporarily unavailable."),
         futurePredictions |-> Str("Unable to generate predictions."),
         cropRecommendations |-> Str("Unable to generate recommendations."),
         riskAssessment |-> Str("Unable to assess risks."),
         simplifiedExplanation |-> Str("Unable to generate explanation."),
         environmentalSolutions |-> Str("Unable to generate solutions."),
         healthAdvisory |-> Str("Unable to generate health advisory.")]
        @@ environmentalData)

\* =========================================================================
\* State
\* =========================================================================
VARIABLES
    \* --- acquisition (fetchEnvironmentalData and its two source clients)
    nasaKey,         \* process.env.NASA_API_KEY is set
    firmsKey,        \* process.env.FIRMS_API_KEY is set
    acqPc,           \* "idle" | "fetching" | "done"
    outbound,        \* the providers an HTTP request was issued to
    nasaResp,        \* what the climate archive answered (environment)
    fireResp,        \* what the fire feed answered (environment)
    powerData,       \* settlement of fetchNasaPowerData(location)
    fireDataResult,  \* settlement of fetchFireData(location)
    draws,           \* the Math.random() draws of the synthesis
    snapshot,        \* the EnvironmentalData returned, or Undef
    \* --- one request (getLocationData, or a direct aiInsightsOrchestrator call)
    entry,           \* the exported function the caller invoked
    location,        \* the Location argument
    glPc,            \* position of getLocationData
    acquisitions,    \* number of fetchEnvironmentalData calls of the request
    envData,         \* environmentalData of the try block (actions.ts 318)
    report,          \* what getLocationData returned, or threw
    orchPc,          \* position of orchestratorFlow
    orchInput,       \* the argument orchestratorFlow received
    launched,        \* the generation tasks called so far (aiCalls)
    results,         \* settlement of each generation task
    orchResult,      \* what orchestratorFlow returned, or threw
    calls,           \* number of getLocationData calls made so far
    firstReport,     \* what the previous getLocationData call returned
    \* --- one geocoder call (geocodeLocation or reverseGeocode)
    geoPc,           \* "unused" | "idle" | "fetching" | "responded" | "done"
    geoCall,         \* the function called and its argument
    geoResp,         \* what the geocoding service answered (environment)
    geoResult,       \* what the function returned, or threw
    \* --- the ResponseCache
    cache,           \* the entries, in insertion order
    clock,           \* the time now
    cacheOut,        \* the last Get or Put: its key, its result, the table before
    \* --- the DataQualityScorer
    scPc,            \* "unused" | "idle" | "scored"
    scInput,         \* the outcome of each validity check on the snapshot
    scGrade,         \* the QualityGrade returned
    \* --- the page controller (Home)
    selectedLocation, \* useState: the Location selected last
    pageData,        \* useState data: the Report displayed
    loading,         \* useState loading
    inFlight,        \* the getLocationData calls not yet settled, oldest first
    selections       \* number of handleLocationSelect calls so far

acqVars == <<nasaKey, firmsKey, acqPc, outbound, nasaResp, fireResp,
             powerData, fireDataResult, draws, snapshot>>

reqVars == <<entry, location, glPc, acquisitions, envData, report, calls,
            firstReport>>

geoVars == <<geoPc, geoCall, geoResp, geoResult>>

cacheVars == <<cache, clock, cacheOut>>

scoreVars == <<scPc, scInput, scGrade>>

pageVars == <<selectedLocation, pageData, loading, inFlight, selections>>

orchVars == <<orchPc, orchInput, launched, results, orchResult>>

vars == <<nasaKey, firmsKey, acqPc, outbound, nasaResp, fireResp,
          powerData, fireDataResult, draws, snapshot,
          entry, location, glPc, acquisitions, envData, report,
          orchPc, orchInput, launched, results, orchResult,
          calls, firstReport, geoPc, geoCall, geoResp, geoResult,
          cache, clock, cacheOut, scPc, scInput, scGrade,
          selectedLocation, pageData, loading, inFlight, selections>>

\* =========================================================================
\* Inputs of the acquisition stage
\* =========================================================================
NoResp == [kind |-> "none"]

\* One payload of the climate archive: n sorted date keys; the surface
\* temperature, the daily extremes and the three "today" parameters hold one
\* value on every date, precipitation varies per date.
NasaBody(n, ts, pre, mx, mn, nd, aod, co) ==
    [t |-> "object", props |-> TRUE, fill |-> Num(NASA_FILL_VALUE), n |-> n,
     param |-> [p \in Params |-> [d \in 1..n |->
        CASE p = "TS_DAY_MODIS" -> ts
          [] p = "PRECTOTCORR" -> pre[d]
          [] p = "T2M_MAX" -> mx
          [] p = "T2M_MIN" -> mn
          [] p = "NDVI_MODIS" -> nd
          [] p = "AOD_550_MISR" -> aod
          [] p = "CO_COLUMN_MOPITT" -> co]]]

\* A 2xx JSON answer without "properties" (an error document).
NoPropsBody ==
    [t |-> "object", props |-> FALSE, fill |-> Undef, n |-> 0,
     param |-> [p \in Params |-> << >>]]

TsVals == {Num(NASA_FILL_VALUE), Num(0), Num(25126 * 1000), Num(70 * U)}
PreVals == {Num(NASA_FILL_VALUE), Num(6 * U)}
MaxVals == {Num(NASA_FILL_VALUE), Num(22 * U)}
MinVals == {Undef, Num(15 * U)}
NdviVals == {Num(NASA_FILL_VALUE), Num(H(10)), Num(H(150))}
AodVals == {Num(NASA_FILL_VALUE), Num(H(20))}
CoVals == {Num(H(3))}

NasaBodies ==
    {NoPropsBody} \cup
    {NasaBody(n, ts, pre, mx, mn, nd, aod, co) :
        n \in 0..MaxDates, ts \in TsVals, pre \in [1..MaxDates -> PreVals],
        mx \in MaxVals, mn \in MinVals, nd \in NdviVals, aod \in AodVals,
        co \in CoVals}

NasaResponses ==
    {[kind |-> k] : k \in NasaFailKinds} \cup
    {[kind |-> "ok", body |-> b] : b \in NasaBodies}

FireResponses ==
    {[kind |-> k] : k \in FireFailKinds} \cup
    {[kind |-> "ok", lines |-> l] : l \in 1..(MaxFires + 1)}

\* The draws of one synthesis.  The temperature draws are taken equal to
\* each other, and the air-quality and pH draws equal to the precipitation
\* draw.
RndDraws ==
    {[temp |-> a, fc |-> [i \in 1..FORECAST_DAYS |-> a], precip |-> c,
      soil |-> d, aod |-> c, co |-> c, ph |-> c] :
        a \in Rand, c \in Rand, d \in Rand}

NoDraws == [temp |-> 0, fc |-> << >>, precip |-> 0, soil |-> 0, aod |-> 0,
            co |-> 0, ph |-> 0]

\* No request is modelled (the acquisition stage is run on its own).
RequestIdle ==
    /\ entry = "none"
    /\ location = Undef
    /\ glPc = "none"
    /\ acquisitions = 0
    /\ envData = Undef
    /\ report = Undef
    /\ orchPc = "idle"
    /\ orchInput = Undef
    /\ launched = {}
    /\ results = << >>
    /\ orchResult = Undef
    /\ calls = 0
    /\ firstReport = Undef

\* No geocoder call is modelled.
ScorerUnused ==
    /\ scPc = "unused"
    /\ scInput = Undef
    /\ scGrade = Undef

PageUnused ==
    /\ selectedLocation = Null
    /\ pageData = Null
    /\ loading = FALSE
    /\ inFlight = << >>
    /\ selections = 0

NoOp == [op |-> "none"]

CacheUnused ==
    /\ cache = << >>
    /\ clock = 0
    /\ cacheOut = NoOp

GeoUnused ==
    /\ geoPc = "unused"
    /\ geoCall = Undef
    /\ geoResp = NoResp
    /\ geoResult = Undef

\* =========================================================================
\* Acquisition: fetchEnvironmentalData(location)
\* =========================================================================
InitAcq ==
    /\ nasaKey \in BOOLEAN
    /\ firmsKey \in BOOLEAN
    /\ acqPc = "idle"
    /\ outbound = {}
    /\ nasaResp = NoResp
    /\ fireResp = NoResp
    /\ powerData = Pending
    /\ fireDataResult = Pending
    /\ draws = NoDraws
    /\ snapshot = Undef
    /\ RequestIdle
    /\ GeoUnused
    /\ CacheUnused
    /\ ScorerUnused
    /\ PageUnused

\* actions.ts 173-176: both clients are called before the first await.  A
\* client whose key is missing returns at once (45-50, 102-107); otherwise
\* it issues its request with AbortSignal.timeout(10000).
fetchEnvironmentalData_Call ==
    /\ acqPc = "idle"
    /\ acqPc' = "fetching"
    /\ outbound' = (IF apiKeySet(nasaKey) THEN {"power"} ELSE {})
                   \cup (IF apiKeySet(firmsKey) THEN {"firms"} ELSE {})
    /\ powerData' = IF apiKeySet(nasaKey) THEN Pending
                                          ELSE Fulfilled(fetchNasaPowerData_NoKey)
    /\ fireDataResult' = IF apiKeySet(firmsKey) THEN Pending
                                                ELSE Fulfilled(fetchFireData_NoKey)
    /\ nasaResp' = IF apiKeySet(nasaKey) THEN NoResp ELSE [kind |-> "nokey"]
    /\ fireResp' = IF apiKeySet(firmsKey) THEN NoResp ELSE [kind |-> "nokey"]
    /\ UNCHANGED <<nasaKey, firmsKey, draws, snapshot>>
    /\ UNCHANGED <<reqVars, orchVars, geoVars, cacheVars, scoreVars, pageVars>>

\* actions.ts 84-98: the archive answers.
NasaRespond ==
    /\ acqPc = "fetching"
    /\ powerData.status = "pending"
    /\ \E resp \in NasaResponses :
        /\ nasaResp' = resp
        /\ powerData' = Fulfilled(fetchNasaPowerData_Result(resp))
    /\ UNCHANGED <<nasaKey, firmsKey, acqPc, outbound, fireResp, fireDataResult,
                   draws, snapshot>>
    /\ UNCHANGED <<reqVars, orchVars, geoVars, cacheVars, scoreVars, pageVars>>

\* actions.ts 86, 95-98: the 10 s abort signal fires; fetch rejects; catch.
NasaTimeout ==
    /\ acqPc = "fetching"
    /\ powerData.status = "pending"
    /\ nasaResp' = [kind |-> "timeout"]
    /\ powerData' = Fulfilled(fetchNasaPowerData_Result([kind |-> "timeout"]))
    /\ UNCHANGED <<nasaKey, firmsKey, acqPc, outbound, fireResp, fireDataResult,
                   draws, snapshot>>
    /\ UNCHANGED <<reqVars, orchVars, geoVars, cacheVars, scoreVars, pageVars>>

\* actions.ts 122-142: the fire feed answers.
FireRespond ==
    /\ acqPc = "fetching"
    /\ fireDataResult.status = "pending"
    /\ \E resp \in FireResponses :
        /\ fireResp' = resp
        /\ fireDataResult' = Fulfilled(fetchFireData_Result(resp))
    /\ UNCHANGED <<nasaKey, firmsKey, acqPc, outbound, nasaResp, powerData,
                   draws, snapshot>>
    /\ UNCHANGED <<reqVars, orchVars, geoVars, cacheVars, scoreVars, pageVars>>

\* actions.ts 123, 139-142: the 10 s abort signal fires; fetch rejects; catch.
FireTimeout ==
    /\ acqPc = "fetching"
    /\ fireDataResult.status = "pending"
    /\ fireResp' = [kind |-> "timeout"]
    /\ fireDataResult' = Fulfilled(fetchFireData_Result([kind |-> "timeout"]))
    /\ UNCHANGED <<nasaKey, firmsKey, acqPc, outbound, nasaResp, powerData,
                   draws, snapshot>>
    /\ UNCHANGED <<reqVars, orchVars, geoVars, cacheVars, scoreVars, pageVars>>

\* actions.ts 173-243: Promise.allSettled has settled; the snapshot is built.
fetchEnvironmentalData_Return ==
    /\ acqPc = "fetching"
    /\ powerData.status # "pending"
    /\ fireDataResult.status # "pending"
    /\ \E rnd \in RndDraws :
        /\ draws' = rnd
        /\ snapshot' = fetchEnvironmentalData(powerData, fireDataResult, rnd, 1)
    /\ acqPc' = "done"
    /\ UNCHANGED <<nasaKey, firmsKey, outbound, nasaResp, fireResp, powerData,
                   fireDataResult>>
    /\ UNCHANGED <<reqVars, orchVars, geoVars, cacheVars, scoreVars, pageVars>>

NextAcq ==
    \/ fetchEnvironmentalData_Call
    \/ NasaRespond
    \/ NasaTimeout
    \/ FireRespond
    \/ FireTimeout
    \/ fetchEnvironmentalData_Return

SpecAcq == InitAcq /\ [][NextAcq]_vars

\* =========================================================================
\* One request: getLocationData(location), or aiInsightsOrchestrator(input)
\* =========================================================================
Locations ==
    {[lat |-> 40712800, lng |-> 0 - 74006000, name |-> Str("New York, USA")],
     [lat |-> 48856600, lng |-> 2352200, name |-> Undef],
     [lat |-> 95 * U, lng |-> 200 * U, name |-> Undef]}

Entries == {"getLocationData", "aiInsightsOrchestrator"}

\* The acquisitions a request can see: every provider unavailable, and both
\* providers answering.
AllDown ==
    [powerData |-> Fulfilled(fetchNasaPowerData_NoKey),
     fireDataResult |-> Fulfilled(fetchFireData_NoKey),
     rnd |-> [temp |-> 0, fc |-> [i \in 1..FORECAST_DAYS |-> 0], precip |-> 0,
              soil |-> 0, aod |-> 0, co |-> 0, ph |-> 0]]

AllUp ==
    [powerData |-> Fulfilled(fetchNasaPowerData_Result(
        [kind |-> "ok",
         body |-> NasaBody(3, Num(25126 * 1000), [d \in 1..3 |-> Num(6 * U)],
                           Num(30 * U), Num(15 * U), Num(H(55)), Num(H(20)),
                           Num(H(3)))])),
     fireDataResult |-> Fulfilled(fetchFireData_Result([kind |-> "ok", lines |-> 3])),
     rnd |-> [temp |-> U \div 2, fc |-> [i \in 1..FORECAST_DAYS |-> U \div 2],
              precip |-> U \div 2, soil |-> U - 1000, aod |-> U \div 2,
              co |-> U \div 2, ph |-> U \div 2]]

Scenarios == {AllDown, AllUp}

Acquire(sc, now) == fetchEnvironmentalData(sc.powerData, sc.fireDataResult, sc.rnd, now)

AcquisitionUnused ==
    /\ nasaKey = FALSE
    /\ firmsKey = FALSE
    /\ acqPc = "unused"
    /\ outbound = {}
    /\ nasaResp = NoResp
    /\ fireResp = NoResp
    /\ powerData = Pending
    /\ fireDataResult = Pending
    /\ draws = NoDraws
    /\ snapshot = Undef

Init ==
    /\ AcquisitionUnused
    /\ entry \in Entries
    /\ location \in Locations
    /\ glPc = (IF entry = "getLocationData" THEN "start" ELSE "none")
    /\ acquisitions = 0
    /\ envData = Undef
    /\ report = Undef
    /\ orchPc = "idle"
    /\ orchInput = Undef
    /\ launched = {}
    /\ results = << >>
    /\ orchResult = Undef
    /\ calls = (IF entry = "getLocationData" THEN 1 ELSE 0)
    /\ firstReport = Undef
    /\ GeoUnused
    /\ CacheUnused
    /\ ScorerUnused
    /\ PageUnused

\* Promise.race in place of Promise.allSettled: one settled client suffices.
AcquisitionSettled_Race ==
    powerData.status # "pending" \/ fireDataResult.status # "pending"

\* actions.ts 173-176: Promise.allSettled of the two source clients has
\* settled.
AcquisitionSettled ==
    powerData.status # "pending" /\ fireDataResult.status # "pending"

\* actions.ts 318, 173-176: fetchEnvironmentalData(location) is called; it
\* calls both source clients and awaits them.
getLocationData_Fetch ==
    /\ glPc = "start"
    /\ powerData' = Pending
    /\ fireDataResult' = Pending
    /\ glPc' = "acquiring"
    /\ UNCHANGED <<entry, location, acquisitions, envData, report, calls,
                   firstReport, orchVars>>
    /\ UNCHANGED <<nasaKey, firmsKey, acqPc, outbound, nasaResp, fireResp,
                   draws, snapshot, geoVars, cacheVars, scoreVars, pageVars>>

\* The climate client of the request settles (an answer, or its deadline).
fetchNasaPowerData_Settle ==
    /\ glPc = "acquiring"
    /\ powerData.status = "pending"
    /\ \E sc \in Scenarios :
        /\ fireDataResult \in {Pending, sc.fireDataResult}
        /\ powerData' = sc.powerData
    /\ UNCHANGED <<reqVars, orchVars>>
    /\ UNCHANGED <<nasaKey, firmsKey, acqPc, outbound, nasaResp, fireResp,
                   fireDataResult, draws, snapshot, geoVars, cacheVars,
                   scoreVars, pageVars>>

\* The fire client of the request settles (an answer, or its deadline).
fetchFireData_Settle ==
    /\ glPc = "acquiring"
    /\ fireDataResult.status = "pending"
    /\ \E sc \in Scenarios :
        /\ powerData \in {Pending, sc.powerData}
        /\ fireDataResult' = sc.fireDataResult
    /\ UNCHANGED <<reqVars, orchVars>>
    /\ UNCHANGED <<nasaKey, firmsKey, acqPc, outbound, nasaResp, fireResp,
                   powerData, draws, snapshot, geoVars, cacheVars,
                   scoreVars, pageVars>>

\* actions.ts 178-243, 318: the await of the two clients resumes, the
\* snapshot is synthesized and getLocationData receives it.
getLocationData_Acquired ==
    /\ glPc = "acquiring"
    /\ AcquisitionSettled
    /\ \E sc \in Scenarios :
        /\ powerData \in {Pending, sc.powerData}
        /\ fireDataResult \in {Pending, sc.fireDataResult}
        /\ envData' = fetchEnvironmentalData(powerData, fireDataResult, sc.rnd,
                                             acquisitions + 1)
    /\ acquisitions' = acquisitions + 1
    /\ glPc' = "call"
    /\ UNCHANGED <<entry, location, report, calls, firstReport, orchVars,
                   acqVars, geoVars, cacheVars, scoreVars, pageVars>>

\* actions.ts 320-323: aiInsightsOrchestrator({location, environmentalData})
getLocationData_CallOrchestrator ==
    /\ glPc = "call"
    /\ orchPc = "idle"
    /\ orchInput' = getLocationData_OrchestratorArg(location, envData)
    /\ orchPc' = "launch"
    /\ launched' = {}
    /\ results' = [task \in TaskSet |-> Pending]
    /\ glPc' = "await"
    /\ UNCHANGED <<entry, location, acquisitions, envData, report, calls,
                   firstReport, orchResult, acqVars, geoVars, cacheVars, scoreVars, pageVars>>

\* ai-orchestrator.ts 126-128: the exported server action, called with the
\* flat snapshot object its body reads (the snapshot fields and location).
aiInsightsOrchestrator_Call ==
    /\ entry = "aiInsightsOrchestrator"
    /\ orchPc = "idle"
    /\ \E sc \in Scenarios :
        orchInput' = SnapshotWithLocation(location, Acquire(sc, 1))
    /\ orchPc' = "launch"
    /\ launched' = {}
    /\ results' = [task \in TaskSet |-> Pending]
    /\ UNCHANGED <<reqVars, orchResult, acqVars, geoVars, cacheVars, scoreVars, pageVars>>

\* ai-orchestrator.ts 67-74: the next element of aiCalls is evaluated; the
\* task is called and its promise stored.
orchestratorFlow_Launch ==
    /\ orchPc = "launch"
    /\ LET k == Cardinality(launched) IN
        /\ launched' = launched \cup {Tasks[k + 1]}
        /\ orchPc' = IF k + 1 = Len(Tasks) THEN "await" ELSE "launch"
    /\ UNCHANGED <<reqVars, orchInput, results, orchResult, acqVars, geoVars, cacheVars, scoreVars, pageVars>>

\* The provider of one launched task answers (or its call fails) while the
\* orchestrator is suspended at line 77.
TaskSettle ==
    /\ orchPc = "await"
    /\ \E task \in launched :
        /\ results[task].status = "pending"
        /\ \E po \in ProviderOutcomes(task) :
            results' = [results EXCEPT ![task] = TaskSettlement(task, po)]
    /\ UNCHANGED <<reqVars, orchPc, orchInput, launched, orchResult, acqVars, geoVars, cacheVars, scoreVars, pageVars>>

\* ai-orchestrator.ts 77-121: the await resumes and the output is built.
orchestratorFlow_Join ==
    /\ orchPc = "await"
    /\ JoinReady(results)
    /\ orchResult' = orchestratorFlow_Body(orchInput, results)
    /\ orchPc' = orchResult'.status
    /\ UNCHANGED <<reqVars, orchInput, launched, results, acqVars, geoVars, cacheVars, scoreVars, pageVars>>

\* actions.ts 325-345: the orchestrator call has settled.  On a value the
\* two objects are merged; on an exception the catch block acquires the
\* environmental data again and returns its fixed strings.
getLocationData_Settle ==
    /\ glPc = "await"
    /\ orchPc \in {"returned", "thrown"}
    /\ IF orchPc = "returned"
       THEN /\ report' = getLocationData_Merge(envData, orchResult.value)
            /\ acquisitions' = acquisitions
       ELSE /\ \E sc \in Scenarios :
                report' = getLocationData_Catch(Acquire(sc, acquisitions + 1))
            /\ acquisitions' = acquisitions + 1
    /\ glPc' = report'.status
    /\ UNCHANGED <<entry, location, envData, calls, firstReport, orchVars, acqVars, geoVars, cacheVars, scoreVars, pageVars>>

\* page.tsx 29: the client calls getLocationData again with the same
\* Location after the previous call returned.  acquisitions counts per call,
\* so the freshness marker of the new call's snapshot is that of the old.
getLocationData_CallAgain ==
    /\ entry = "getLocationData"
    /\ glPc = "returned"
    /\ calls < MaxCalls
    /\ calls' = calls + 1
    /\ firstReport' = report
    /\ glPc' = "start"
    /\ acquisitions' = 0
    /\ envData' = Undef
    /\ report' = Undef
    /\ orchPc' = "idle"
    /\ orchInput' = Undef
    /\ launched' = {}
    /\ results' = << >>
    /\ orchResult' = Undef
    /\ UNCHANGED <<entry, location, acqVars, geoVars, cacheVars, scoreVars, pageVars>>

\* The steps the program takes by itself (a provider's answer is not one).
ProgramStep ==
    \/ getLocationData_Fetch
    \/ fetchNasaPowerData_Settle
    \/ fetchFireData_Settle
    \/ getLocationData_Acquired
    \/ getLocationData_CallOrchestrator
    \/ aiInsightsOrchestrator_Call
    \/ orchestratorFlow_Launch
    \/ orchestratorFlow_Join
    \/ getLocationData_Settle

Next ==
    \/ getLocationData_Fetch
    \/ fetchNasaPowerData_Settle
    \/ fetchFireData_Settle
    \/ getLocationData_Acquired
    \/ getLocationData_CallOrchestrator
    \/ aiInsightsOrchestrator_Call
    \/ orchestratorFlow_Launch
    \/ TaskSettle
    \/ orchestratorFlow_Join
    \/ getLocationData_Settle
    \/ getLocationData_CallAgain

Spec == Init /\ [][Next]_vars

\* =========================================================================
\* Properties of one request (checked under Spec)
\* =========================================================================
\* A text field that holds a sentence: not undefined, not the empty string.
Populated(x) ==
    /\ x.t \in {"string", "template", "summary"}
    /\ x.t = "string" => x.v # ""

AllTextKeys == TextKeys \cup {"summary"}

\* Every environmental field of a Report is present.
EnvPopulated(r) ==
    /\ (SnapshotFields \cup {"lastUpdated"}) \subseteq DOMAIN r
    /\ r.airQuality.aerosolIndex \in Int /\ r.airQuality.co \in Int
    /\ r.soil.moisture \in Int /\ r.soil.temperature \in Int /\ r.soil.ph \in Int
    /\ r.fire.activeFires \in Nat
    /\ r.water.surfaceWater \in Int /\ r.water.precipitation \in Int
    /\ r.weather.currentTemp \in Int
    /\ Len(r.weather.forecast) = FORECAST_DAYS
    /\ r.vegetation.ndvi \in Int

OrchStarted == orchPc \in {"launch", "await", "returned", "thrown"}
OrchFinished == orchPc \in {"returned", "thrown"}
RequestFinished == glPc \in {"returned", "thrown"}

\* The orchestrator received the snapshot in the shape it reads.
WellFormedInput == OrchStarted /\ SnapshotFields \subseteq DOMAIN orchInput

\* A task produced usable text.
Succeeded(task) ==
    /\ results[task].status = "fulfilled"
    /\ results[task].value.t = "object"
    /\ results[task].value.has
    /\ results[task].value.text # Str("")

\* C1: getLocationData never throws for a valid Location, and the Report it
\* returns has every environmental field and every text field populated,
\* whatever the providers and the generation tasks did.
C1_ReportAlwaysPopulated ==
    /\ glPc # "thrown"
    /\ glPc = "returned" =>
        /\ report.status = "returned"
        /\ EnvPopulated(report.value)
        /\ \A k \in AllTextKeys :
            k \in DOMAIN report.value /\ Populated(report.value[k])

\* C1 witness: a request returned although every provider was unavailable in
\* both acquisitions and all six generation tasks were rejected.
C1_Witness ==
    /\ glPc = "returned"
    /\ envData = Acquire(AllDown, 1)
    /\ \A task \in TaskSet : results[task].status = "rejected"
    /\ report.value.fire = fetchFireData_NoKey
    /\ report.value.weather = Acquire(AllDown, 2).weather

\* C2: no task settles before all six are launched; the orchestrator leaves
\* its await only when all six have settled; a rejected task never makes it
\* throw, and every text a task produced is in the output it returns.
C2_FanOutFanIn ==
    OrchStarted =>
        /\ (\E task \in TaskSet : results[task].status # "pending")
                => launched = TaskSet
        /\ OrchFinished => \A task \in TaskSet : results[task].status # "pending"
        /\ orchPc = "thrown" =>
            \/ ~WellFormedInput
            \/ \E task \in TaskSet :
                /\ results[task].status = "fulfilled"
                /\ ~outputSchemaAccepts(results[task].value)
        /\ orchPc = "returned" =>
            \A task \in TaskSet :
                results[task].status = "fulfilled" =>
                    orchResult.value[OutputKey(task)] = results[task].value.text

\* C2 witness: the orchestrator returned with one task rejected and another
\* task's generated text in its output.
C2_Witness ==
    /\ orchPc = "returned"
    /\ results["futureTrendPredictions"].status = "rejected"
    /\ Succeeded("getCropRecommendations")
    /\ orchResult.value.cropRecommendations = GenText("getCropRecommendations")
    /\ orchResult.value.futurePredictions
        = FallbackText("futureTrendPredictions", orchInput)

\* The fallback strings a Report may hold for a task: the orchestrator's
\* sentence, or the sentence of getLocationData's catch block.
ReportFallbacks(task) ==
    {FallbackText(task, SnapshotWithLocation(location, envData)),
     getLocationData_Catch(envData).value[OutputKey(task)]}

\* C3 (as claimed): the Report of a request holds, for every task that
\* failed, a fallback string of that task and, for every task that
\* succeeded, exactly the text the task produced.
C3_ReportReflectsTasks ==
    glPc = "returned" =>
        \A task \in TaskSet :
            /\ Succeeded(task) =>
                report.value[OutputKey(task)] = results[task].value.text
            /\ results[task].status = "rejected" =>
                report.value[OutputKey(task)] \in ReportFallbacks(task)

\* C4 (as claimed): an unfinished request never depends on a provider alone:
\* while getLocationData has not returned, some step of the program itself
\* (a resumption, or a deadline firing) is enabled.
C4_EveryCallHasDeadline ==
    entry = "getLocationData" => (RequestFinished \/ ENABLED ProgramStep)

\* A fixed sentence: a non-empty string that interpolates nothing.
FixedSentence(x) == x.t = "string" /\ x.v # ""

\* C5 (as claimed): when the orchestrator is given a snapshot and a task
\* yields no usable text (rejected, or fulfilled with a missing or empty
\* text), the task's output field is its fixed fallback sentence.
C5_UnusableTextGetsFallback ==
    (OrchFinished /\ WellFormedInput) =>
        \A task \in TaskSet :
            ~Succeeded(task) =>
                /\ orchPc = "returned"
                /\ orchResult.value[OutputKey(task)] = FallbackText(task, orchInput)
                /\ FixedSentence(orchResult.value[OutputKey(task)])

\* C6 (as claimed): a provider output that lacks the text field (null
\* included) is never observed as a fulfilled task, and no task outcome
\* makes the orchestrator throw on a snapshot.
C6_BadOutputIsTaskFailure ==
    (OrchStarted /\ WellFormedInput) =>
        /\ \A task \in TaskSet :
            results[task].status = "fulfilled"
                => outputSchemaAccepts(results[task].value)
        /\ orchPc # "thrown"

\* C7 (as claimed): the orchestrator call of a getLocationData request never
\* throws, and its output has every field populated.
C7_NoFailureEscapes ==
    entry = "getLocationData" =>
        /\ orchPc # "thrown"
        /\ orchPc = "returned" =>
            \A k \in AllTextKeys : Populated(orchResult.value[k])

\* C8 (as claimed): the summary of the returned Report is the summary
\* computed from the Report's own snapshot.
C8_SummaryFromSnapshot ==
    glPc = "returned" =>
        report.value.summary
            = generateSummary(SnapshotWithLocation(location,
                [f \in SnapshotFields |-> report.value[f]]))

\* =========================================================================
\* Properties of the acquisition stage (checked under SpecAcq)
\* =========================================================================
InRange(x, lo, hi) == x \in Int /\ lo <= x /\ x <= hi

\* C9 (as claimed): every numeric field of a returned snapshot is within its
\* declared bound.
C9_SnapshotInBounds ==
    acqPc = "done" =>
        /\ InRange(snapshot.soil.moisture, 0, U)
        /\ InRange(snapshot.soil.ph, 0, 14 * U)
        /\ InRange(snapshot.soil.temperature, 0 - 50 * U, 60 * U)
        /\ InRange(snapshot.water.surfaceWater, 0, U)
        /\ snapshot.water.precipitation >= 0
        /\ snapshot.airQuality.aerosolIndex >= 0
        /\ snapshot.airQuality.co >= 0
        /\ snapshot.fire.activeFires \in Nat
        /\ InRange(snapshot.weather.currentTemp, 0 - 60 * U, 60 * U)
        /\ InRange(snapshot.vegetation.ndvi, 0 - U, U)

\* The dates of a payload that carry a real precipitation measurement.
RealPrecipDates(body) ==
    {d \in 1..body.n :
        /\ body.param["PRECTOTCORR"][d].t = "number"
        /\ body.param["PRECTOTCORR"][d].v # FillValueOf(body)}

RECURSIVE SumOver(_, _)
SumOver(body, dates) ==
    IF dates = {} THEN 0
    ELSE LET d == CHOOSE x \in dates : TRUE IN
         body.param["PRECTOTCORR"][d].v + SumOver(body, dates \ {d})

\* C10 (as claimed): a fill value is absent in every use: no snapshot field
\* holds it, and the precipitation of a snapshot is the average of the real
\* measurements only.
C10_FillValueIsAbsent ==
    (acqPc = "done" /\ nasaResp.kind = "ok" /\ nasaResp.body.props) =>
        /\ snapshot.weather.currentTemp # NASA_FILL_VALUE
        /\ snapshot.vegetation.ndvi # NASA_FILL_VALUE
        /\ snapshot.airQuality.aerosolIndex # NASA_FILL_VALUE
        /\ LET real == RealPrecipDates(nasaResp.body) IN
            real # {} =>
                snapshot.water.precipitation
                    = toFixed2(SumOver(nasaResp.body, real) \div Cardinality(real))

\* The payload value the acquisition reads for a "today" parameter.
TodayValue(body, param) == body.param[param][body.n - 2]

\* A payload value that is a real measurement within [lo, hi].
ValidMeasurement(body, v, lo, hi) ==
    v.t = "number" /\ v.v # FillValueOf(body) /\ lo <= v.v /\ v.v <= hi

\* C11 (as claimed): a valid in-range number the archive supplies for the
\* date read as today, a genuine 0 included, is the snapshot's value rounded
\* to two decimals.
C11_ProviderValueIsUsed ==
    (acqPc = "done" /\ nasaResp.kind = "ok" /\ nasaResp.body.props
        /\ nasaResp.body.n >= 3) =>
        LET body == nasaResp.body
            ts == TodayValue(body, "TS_DAY_MODIS")
            nd == TodayValue(body, "NDVI_MODIS")
            aod == TodayValue(body, "AOD_550_MISR")
        IN
        /\ ValidMeasurement(body, ts, 0 - 60 * U, 60 * U)
            => snapshot.weather.currentTemp = toFixed2(ts.v)
        /\ ValidMeasurement(body, nd, 0 - U, U)
            => snapshot.vegetation.ndvi = toFixed2(nd.v)
        /\ ValidMeasurement(body, aod, 0, 10 * U)
            => snapshot.airQuality.aerosolIndex = toFixed2(aod.v)

\* C12 (as claimed): whatever the fire feed did, fire.fireRisk is the tier
\* the thresholds assign to fire.activeFires.
C12_FireRiskIsTierOfCount ==
    acqPc = "done" =>
        snapshot.fire.fireRisk = fireRiskOf(snapshot.fire.activeFires)

\* C12 (amended): fire.fireRisk is the tier of fire.activeFires when the feed
\* answered, answered non-2xx or has no credential; when the request timed
\* out or failed on the network the snapshot has no fires and risk "unknown".
C12_FireRiskIsTierOrUnknown ==
    acqPc = "done" =>
        IF fireResp.kind \in {"timeout", "network"}
        THEN snapshot.fire = [activeFires |-> 0, fireRisk |-> "unknown"]
        ELSE /\ snapshot.fire.fireRisk = fireRiskOf(snapshot.fire.activeFires)
             /\ fireResp.kind \in {"nokey", "http"}
                    => snapshot.fire = [activeFires |-> 0, fireRisk |-> "low"]

\* C12 witness: a snapshot built after the fire request timed out.
C12_Witness ==
    /\ acqPc = "done"
    /\ fireResp.kind = "timeout"
    /\ snapshot.fire.fireRisk = "unknown"

\* Rank of a tier in the order low < medium < high < very-high.
TierRank(tier) ==
    CASE tier = "low" -> 0
      [] tier = "medium" -> 1
      [] tier = "high" -> 2
      [] tier = "very-high" -> 3

\* The tier the claim assigns to a count.
ClaimedTier(n) ==
    IF n > 10 THEN "very-high"
    ELSE IF 5 < n /\ n <= 10 THEN "high"
    ELSE IF 0 < n /\ n <= 5 THEN "medium"
    ELSE "low"

\* C13: the tier of a counted answer of the fire feed is the claimed one
\* (very-high above 10, high for 6..10, medium for 1..5, low for 0), and no
\* smaller count has a higher tier.
C13_TierThresholdsMonotone ==
    (acqPc = "done" /\ fireResp.kind = "ok") =>
        LET n == snapshot.fire.activeFires IN
        /\ n = (IF fireResp.lines > 1 THEN fireResp.lines - 1 ELSE 0)
        /\ snapshot.fire.fireRisk = ClaimedTier(n)
        /\ \A m \in 0..n :
            TierRank(fireRiskOf(m)) <= TierRank(snapshot.fire.fireRisk)

\* C13 witness: exactly ten fires are counted and the tier is still high.
C13_Witness ==
    /\ acqPc = "done"
    /\ fireResp.kind = "ok"
    /\ snapshot.fire = [activeFires |-> 10, fireRisk |-> "high"]

\* C14: once a client has settled it is fulfilled with a value: the archive
\* client with a payload or null, the fire client with a count and a tier;
\* neither is ever rejected.
C14_ClientsNeverThrow ==
    /\ powerData.status \in {"pending", "fulfilled"}
    /\ fireDataResult.status \in {"pending", "fulfilled"}
    /\ powerData.status = "fulfilled" => powerData.value.t \in {"null", "object"}
    /\ fireDataResult.status = "fulfilled" =>
        /\ fireDataResult.value.activeFires \in Nat
        /\ fireDataResult.value.fireRisk
            \in {"low", "medium", "high", "very-high", "unknown"}
    /\ (nasaResp.kind \in (NasaFailKinds \cup {"timeout", "nokey"}))
            => powerData = Fulfilled(Null)

\* C14 witness: the archive sent a body that does not parse and the fire
\* request timed out; both clients returned a value.
C14_Witness ==
    /\ nasaResp.kind = "badjson"
    /\ fireResp.kind = "timeout"
    /\ powerData = Fulfilled(Null)
    /\ fireDataResult.status = "fulfilled"

\* C15: a client without its credential issues no request and settles at
\* once; the snapshot then holds synthetic values within their bounds for
\* every field the source would have supplied.
C15_NoCredentialNoRequest ==
    /\ (acqPc # "idle" /\ ~nasaKey) =>
        /\ "power" \notin outbound
        /\ powerData = Fulfilled(fetchNasaPowerData_NoKey)
    /\ (acqPc # "idle" /\ ~firmsKey) =>
        /\ "firms" \notin outbound
        /\ fireDataResult = Fulfilled(fetchFireData_NoKey)
    /\ (acqPc = "fetching" /\ ~nasaKey /\ ~firmsKey)
            => ENABLED fetchEnvironmentalData_Return
    /\ (acqPc = "done" /\ ~nasaKey) =>
        /\ InRange(snapshot.weather.currentTemp, 20 * U, 30 * U)
        /\ InRange(snapshot.soil.temperature, 0 - 50 * U, 60 * U)
        /\ \A i \in 1..FORECAST_DAYS :
            /\ InRange(snapshot.weather.forecast[i].temp, 0 - 60 * U, 60 * U)
            /\ snapshot.weather.forecast[i].min <= snapshot.weather.forecast[i].max
        /\ InRange(snapshot.water.precipitation, 0, 10 * U)
        /\ InRange(snapshot.vegetation.ndvi, H(10), H(90))
        /\ InRange(snapshot.airQuality.aerosolIndex, 0, H(50))
        /\ InRange(snapshot.airQuality.co, 0, H(5))
    /\ (acqPc = "done" /\ ~firmsKey) =>
        snapshot.fire = [activeFires |-> 0, fireRisk |-> "low"]

\* C15 witness: a snapshot was built with neither credential configured.
C15_Witness ==
    /\ acqPc = "done"
    /\ ~nasaKey /\ ~firmsKey
    /\ outbound = {}
    /\ snapshot.weather.currentTemp >= 20 * U

\* Latitude within [-90, 90] and longitude within [-180, 180].
ValidLocation(loc) ==
    /\ 0 - 90 * U <= loc.lat /\ loc.lat <= 90 * U
    /\ 0 - 180 * U <= loc.lng /\ loc.lng <= 180 * U

\* C16 (as claimed): a getLocationData call with an out-of-range Location
\* calls no source client and no generation task, and ends in a validation
\* error.
C16_InvalidLocationRejected ==
    (entry = "getLocationData" /\ ~ValidLocation(location)) =>
        /\ acquisitions = 0
        /\ launched = {}
        /\ orchPc = "idle"
        /\ glPc \in {"start", "thrown"}

\* C18 (as claimed): the second of two consecutive getLocationData calls with
\* the same Location and freshness marker starts no generation task and
\* returns the Report of the first.
C18_SecondCallServedFromCache ==
    (entry = "getLocationData" /\ calls >= 2) =>
        /\ launched = {}
        /\ glPc = "returned" => report = firstReport

\* =========================================================================
\* Geocoding: reverseGeocode and geocodeLocation (actions.ts 247-310)
\* =========================================================================
NaN == [t |-> "NaN"]

\* A string that is the decimal notation of num.
NumStr(num) == [t |-> "string", numeric |-> TRUE, num |-> num]

\* A string that does not start with a number.
TextStr(s) == [t |-> "string", numeric |-> FALSE, v |-> s]

\* parseFloat(x): the number a numeric string denotes, NaN for anything else.
parseFloat(x) ==
    IF x.t = "string" /\ x.numeric THEN Num(x.num) ELSE NaN

\* A place name, as its comma-separated parts.
PlaceName(parts) == [t |-> "string", parts |-> parts]

NoAddress == [t |-> "object", city |-> Undef, state |-> Undef, country |-> Undef]

\* What the reverse lookup parses from a 2xx answer: JSON null, an error
\* document, or a place whose display_name is a (possibly empty) string.
DisplayNames ==
    {<< >>, <<"Paris">>,
     <<"Paris", "Ile-de-France", "Metropolitan France", "France">>}

Addresses ==
    {Undef} \cup
    {[t |-> "object", city |-> c, state |-> st, country |-> co] :
        c \in {Undef, Str("Paris")}, st \in {Undef, Str("Ile-de-France")},
        co \in {Undef, Str("France")}}

ReverseBodies ==
    {Null, [t |-> "object", kind |-> "error"]} \cup
    {[t |-> "object", kind |-> "place", display_name |-> dn, address |-> a] :
        dn \in DisplayNames, a \in Addresses}

\* What the forward lookup parses from a 2xx answer: JSON null, an error
\* document, or an array of matches.
GeocodeBodies ==
    {Null, [t |-> "object", kind |-> "error"], [t |-> "array", items |-> << >>]}
    \cup
    {[t |-> "array", items |-> <<[lat |-> la, lon |-> NumStr(2352200),
                                  display_name |-> dn]>>] :
        la \in {NumStr(48856600), TextStr("n/a"), Undef},
        dn \in {Str("Paris, France"), Undef}}

GeoFailKinds == {"http", "network", "badjson"}

GeoResponses(fn) ==
    {[kind |-> k] : k \in GeoFailKinds} \cup
    {[kind |-> "ok", body |-> b] :
        b \in (IF fn = "reverseGeocode" THEN ReverseBodies ELSE GeocodeBodies)}

GeoCalls ==
    {[fn |-> "reverseGeocode", arg |-> l] : l \in Locations} \cup
    {[fn |-> "geocodeLocation", arg |-> n] : n \in {Str("Paris"), Str("")}}

\* reverseGeocode without its try/catch: a rejected fetch or json() escapes.
reverseGeocode_NoCatch(resp) ==
    IF resp.kind = "http" THEN Null
    ELSE IF resp.kind # "ok" THEN [t |-> "exception"]
    ELSE IF resp.body.t = "null" THEN [t |-> "exception"]
    ELSE IF resp.body.kind = "error" THEN Null
    ELSE IF resp.body.display_name = << >> THEN Null
    ELSE PlaceName(SubSeq(resp.body.display_name, 1,
                          Min2(3, Len(resp.body.display_name))))

\* reverseGeocode: resp.kind "http" is !response.ok; any other failure, and
\* reading display_name of null, lands in the catch.
reverseGeocode(resp) ==
    IF resp.kind # "ok" THEN Null
    ELSE LET data == resp.body IN
        IF data.t = "null" THEN Null
        ELSE IF data.kind = "error" THEN Null
        ELSE IF data.display_name = << >> THEN Null
        ELSE LET a == IF data.address.t = "undefined" THEN NoAddress
                                                       ELSE data.address
             IN
             IF a.city.t = "string" /\ a.country.t = "string"
             THEN PlaceName(<<a.city.v, a.country.v>>)
             ELSE IF a.state.t = "string" /\ a.country.t = "string"
             THEN PlaceName(<<a.state.v, a.country.v>>)
             ELSE PlaceName(SubSeq(data.display_name, 1,
                                   Min2(3, Len(data.display_name))))

\* geocodeLocation: data.length of an error document is undefined, reading
\* it of null throws into the catch; both end at the final return null.
geocodeLocation(resp) ==
    IF resp.kind # "ok" THEN Null
    ELSE LET data == resp.body IN
        IF data.t # "array" THEN Null
        ELSE IF Len(data.items) > 0
        THEN [t |-> "object", lat |-> parseFloat(data.items[1].lat),
              lng |-> parseFloat(data.items[1].lon),
              name |-> data.items[1].display_name]
        ELSE Null

InitGeo ==
    /\ AcquisitionUnused
    /\ RequestIdle
    /\ geoPc = "idle"
    /\ geoCall = Undef
    /\ geoResp = NoResp
    /\ geoResult = Undef
    /\ CacheUnused
    /\ ScorerUnused
    /\ PageUnused

\* The function is called and issues its request (lines 256-262, 287-293).
Geo_Call ==
    /\ geoPc = "idle"
    /\ \E call \in GeoCalls : geoCall' = call
    /\ geoPc' = "fetching"
    /\ UNCHANGED <<geoResp, geoResult, acqVars, reqVars, orchVars, cacheVars, scoreVars, pageVars>>

\* The geocoding service answers.
Geo_Respond ==
    /\ geoPc = "fetching"
    /\ \E resp \in GeoResponses(geoCall.fn) : geoResp' = resp
    /\ geoPc' = "responded"
    /\ UNCHANGED <<geoCall, geoResult, acqVars, reqVars, orchVars, cacheVars, scoreVars, pageVars>>

\* AbortSignal.timeout(5000) fires (lines 261, 292).
Geo_Timeout ==
    /\ geoPc = "fetching"
    /\ geoResp' = [kind |-> "timeout"]
    /\ geoPc' = "responded"
    /\ UNCHANGED <<geoCall, geoResult, acqVars, reqVars, orchVars, cacheVars, scoreVars, pageVars>>

\* The function resumes after its await and returns.
Geo_Return ==
    /\ geoPc = "responded"
    /\ geoResult' = IF geoCall.fn = "reverseGeocode"
                    THEN reverseGeocode(geoResp)
                    ELSE geocodeLocation(geoResp)
    /\ geoPc' = "done"
    /\ UNCHANGED <<geoCall, geoResp, acqVars, reqVars, orchVars, cacheVars, scoreVars, pageVars>>

NextGeo ==
    \/ Geo_Call
    \/ Geo_Respond
    \/ Geo_Timeout
    \/ Geo_Return

SpecGeo == InitGeo /\ [][NextGeo]_vars

\* The service reported a match for the lookup.
IsMatch(fn, resp) ==
    /\ resp.kind = "ok"
    /\ IF fn = "geocodeLocation"
       THEN resp.body.t = "array" /\ Len(resp.body.items) > 0
       ELSE /\ resp.body.t = "object"
            /\ resp.body.kind = "place"
            /\ resp.body.display_name # << >>

\* The service answered that nothing matches.
NoMatch(fn, resp) ==
    /\ resp.kind = "ok"
    /\ \/ resp.body = [t |-> "object", kind |-> "error"]
       \/ fn = "geocodeLocation" /\ resp.body = [t |-> "array", items |-> << >>]

\* C17: a geocoder call never throws; it returns null when the service
\* answers non-2xx, times out, fails on the network, sends a body that does
\* not parse or reports no match, and a non-null result only for a match.
C17_GeocodersReturnNullOnFailure ==
    geoPc = "done" =>
        /\ geoResult.t # "exception"
        /\ geoResp.kind \in (GeoFailKinds \cup {"timeout"}) => geoResult = Null
        /\ NoMatch(geoCall.fn, geoResp) => geoResult = Null
        /\ geoResult # Null => IsMatch(geoCall.fn, geoResp)

\* C17 witness: the reverse lookup timed out and returned null.
C17_Witness ==
    /\ geoPc = "done"
    /\ geoCall.fn = "reverseGeocode"
    /\ geoResp.kind = "timeout"
    /\ geoResult = Null

\* =========================================================================
\* ResponseCache: Get(key) -> Report | Miss, Put(key, report)
\* The table is a sequence of CacheEntry (key, report, insertion time) in
\* insertion order.  getLocationData (actions.ts 314-328) never calls it.
\* =========================================================================
MaxEntries == 2

MaxClock == 4

\* The time-to-live, in clock ticks.
TTL == 2

Miss == [t |-> "miss"]

Keys == 1 .. (MaxEntries + 1)

CachedReports == {Str("report A"), Str("report B")}

\* The entries of table c other than the one stored under key.
Without(c, key) == SelectSeq(c, LAMBDA e : e.key # key)

HasKey(c, key) == \E i \in 1 .. Len(c) : c[i].key = key

EntryOf(c, key) == c[CHOOSE i \in 1 .. Len(c) : c[i].key = key]

\* An entry that never expires.
Fresh_Forever(e, now) == TRUE

\* An entry is fresh while its age since insertion is within the TTL.
Fresh(e, now) == now - e.at <= TTL

\* A lookup that moves the entry it hits to the young end of the table.
cacheGet_LRU(c, key, now) ==
    IF ~HasKey(c, key) THEN [cache |-> c, result |-> Miss]
    ELSE IF ~Fresh(EntryOf(c, key), now)
    THEN [cache |-> Without(c, key), result |-> Miss]
    ELSE [cache |-> Without(c, key) \o <<EntryOf(c, key)>>,
          result |-> EntryOf(c, key).report]

\* Get(key): Miss for an unknown key; a stale entry is evicted and is a
\* Miss; a fresh entry is returned and the table is left as it was.
cacheGet(c, key, now) ==
    IF ~HasKey(c, key) THEN [cache |-> c, result |-> Miss]
    ELSE IF ~Fresh(EntryOf(c, key), now)
    THEN [cache |-> Without(c, key), result |-> Miss]
    ELSE [cache |-> c, result |-> EntryOf(c, key).report]

\* Put(key, report): the entry is inserted anew at the young end; when the
\* table would exceed its capacity the oldest-inserted entry is dropped.
cachePut(c, key, rep, now) ==
    LET kept == Without(c, key)
        room == IF Len(kept) >= MaxEntries THEN Tail(kept) ELSE kept
    IN room \o <<[key |-> key, report |-> rep, at |-> now]>>

InitCache ==
    /\ AcquisitionUnused
    /\ RequestIdle
    /\ GeoUnused
    /\ CacheUnused
    /\ ScorerUnused
    /\ PageUnused

CacheGet ==
    /\ \E key \in Keys :
        /\ cache' = cacheGet(cache, key, clock).cache
        /\ cacheOut' = [op |-> "Get", key |-> key, now |-> clock,
                        result |-> cacheGet(cache, key, clock).result,
                        before |-> cache]
    /\ UNCHANGED <<clock, acqVars, reqVars, orchVars, geoVars, scoreVars, pageVars>>

CachePut ==
    /\ \E key \in Keys, rep \in CachedReports :
        /\ cache' = cachePut(cache, key, rep, clock)
        /\ cacheOut' = [op |-> "Put", key |-> key, now |-> clock,
                        result |-> rep, before |-> cache]
    /\ UNCHANGED <<clock, acqVars, reqVars, orchVars, geoVars, scoreVars, pageVars>>

\* Time passes.
Tick ==
    /\ clock < MaxClock
    /\ clock' = clock + 1
    /\ UNCHANGED <<cache, cacheOut, acqVars, reqVars, orchVars, geoVars, scoreVars, pageVars>>

NextCache ==
    \/ CacheGet
    \/ CachePut
    \/ Tick

SpecCache == InitCache /\ [][NextCache]_vars

EntriesOf(c) == {c[i] : i \in 1 .. Len(c)}

\* The entries of table c that were inserted no later than any other.
OldestInserted(c) ==
    {e \in EntriesOf(c) : \A f \in EntriesOf(c) : e.at <= f.at}

\* C19: the cache never holds more than MaxEntries entries; a Put that
\* overflows the cap removes exactly one entry, the oldest-inserted one, and
\* a Get that hits leaves the table, and so its oldest entry, as it was.
C19_CapAndOldestFirstEviction ==
    /\ Len(cache) <= MaxEntries
    /\ \A i, j \in 1 .. Len(cache) : cache[i].key = cache[j].key => i = j
    /\ (/\ cacheOut.op = "Put"
        /\ Len(cacheOut.before) = MaxEntries
        /\ ~HasKey(cacheOut.before, cacheOut.key))
       => /\ Cardinality(EntriesOf(cacheOut.before) \ EntriesOf(cache)) = 1
          /\ EntriesOf(cacheOut.before) \ EntriesOf(cache)
                \subseteq OldestInserted(cacheOut.before)
          /\ cacheOut.before[1] \notin EntriesOf(cache)
          /\ HasKey(cache, cacheOut.key)
    /\ (cacheOut.op = "Get" /\ cacheOut.result # Miss)
       => cache = cacheOut.before
    /\ (cacheOut.op = "Get" /\ cache # << >> /\ cacheOut.before # << >>
        /\ cacheOut.before[1].key # cacheOut.key)
       => cache[1] = cacheOut.before[1]

\* C19 witness: a Put of a new key into a full table, whose oldest entry is
\* gone afterwards.
C19_Witness ==
    /\ cacheOut.op = "Put"
    /\ Len(cacheOut.before) = MaxEntries
    /\ ~HasKey(cacheOut.before, cacheOut.key)
    /\ Len(cache) = MaxEntries
    /\ ~HasKey(cache, cacheOut.before[1].key)

\* C20: Get returns an entry only while its age since insertion is within
\* the TTL, and a hit does not renew the entry; a Get of an entry older than
\* the TTL returns Miss and removes it.
C20_ExpiryRegardlessOfAccess ==
    cacheOut.op = "Get" =>
        /\ cacheOut.result # Miss =>
            /\ HasKey(cacheOut.before, cacheOut.key)
            /\ cacheOut.now - EntryOf(cacheOut.before, cacheOut.key).at <= TTL
            /\ cacheOut.result = EntryOf(cacheOut.before, cacheOut.key).report
            /\ EntryOf(cache, cacheOut.key)
                  = EntryOf(cacheOut.before, cacheOut.key)
        /\ (/\ HasKey(cacheOut.before, cacheOut.key)
            /\ cacheOut.now - EntryOf(cacheOut.before, cacheOut.key).at > TTL)
           => /\ cacheOut.result = Miss
              /\ ~HasKey(cache, cacheOut.key)
              /\ cache = Without(cacheOut.before, cacheOut.key)

\* C20 witness: a Get of an entry older than the TTL was a Miss and the
\* entry is gone.
C20_Witness ==
    /\ cacheOut.op = "Get"
    /\ HasKey(cacheOut.before, cacheOut.key)
    /\ cacheOut.now - EntryOf(cacheOut.before, cacheOut.key).at > TTL
    /\ cacheOut.result = Miss
    /\ ~HasKey(cache, cacheOut.key)

\* =========================================================================
\* Report metadata (checked under Spec)
\* =========================================================================
\* The environmental fields of a Report.
EnvOf(r) == [f \in SnapshotFields |-> r[f]]

\* The request returned a Report whose snapshot was acquired with every
\* provider unavailable.
ReturnedAllDown ==
    /\ entry = "getLocationData"
    /\ glPc = "returned"
    /\ EnvOf(report.value) = EnvOf(Acquire(AllDown, 1))

\* C21: a Report built with all providers unavailable carries
\* metadata.dataQuality = poor and metadata.cacheable = false, and the cache
\* holds no poor-quality Report.
C21_PoorReportNotCacheable ==
    /\ ReturnedAllDown =>
        /\ "metadata" \in DOMAIN report.value
        /\ report.value.metadata.dataQuality = "poor"
        /\ report.value.metadata.cacheable = FALSE
    /\ \A i \in 1 .. Len(cache) :
        "metadata" \in DOMAIN cache[i].report
            => cache[i].report.metadata.dataQuality # "poor"

\* =========================================================================
\* DataQualityScorer: Score(snapshot) -> QualityGrade
\* A fixed battery of validity checks runs on the snapshot; the grade is a
\* threshold on the fraction of checks that pass.  No file under src/ holds
\* it.
\* =========================================================================
\* Largest number of checks a battery has besides the freshness check.
MaxOtherChecks == 9

\* The max-age window of lastUpdated, in hours.
MAX_AGE_HOURS == 24

\* The snapshot ages tried, in hours.
Ages == {1, 25}

\* What the battery sees of a snapshot: its age, and the outcome of every
\* other check (bounds of the numeric fields, fire risk not unknown, ...).
ScoreInputs ==
    {[age |-> a, others |-> o] :
        a \in Ages,
        o \in UNION {[1 .. k -> BOOLEAN] : k \in 0 .. MaxOtherChecks}}

\* The freshness check: lastUpdated within the max-age window.
FreshnessPasses(input) == input.age <= MAX_AGE_HOURS

PassedChecks(input) ==
    Cardinality({i \in 1 .. Len(input.others) : input.others[i]})
    + (IF FreshnessPasses(input) THEN 1 ELSE 0)

TotalChecks(input) == Len(input.others) + 1

\* >= 0.9 excellent, >= 0.7 good, >= 0.5 fair, else poor
gradeOf(passed, total) ==
    IF passed * 10 >= 9 * total THEN "excellent"
    ELSE IF passed * 10 >= 7 * total THEN "good"
    ELSE IF passed * 10 >= 5 * total THEN "fair"
    ELSE "poor"

Score(input) == gradeOf(PassedChecks(input), TotalChecks(input))

InitScore ==
    /\ AcquisitionUnused
    /\ RequestIdle
    /\ GeoUnused
    /\ CacheUnused
    /\ PageUnused
    /\ scPc = "idle"
    /\ scInput = Undef
    /\ scGrade = Undef

\* Score is called on a snapshot.
Score_Call ==
    /\ scPc = "idle"
    /\ \E input \in ScoreInputs : scInput' = input
    /\ scPc' = "scoring"
    /\ UNCHANGED <<scGrade, acqVars, reqVars, orchVars, geoVars, cacheVars,
                   pageVars>>

\* Score returns the grade.
Score_Return ==
    /\ scPc = "scoring"
    /\ scGrade' = Score(scInput)
    /\ scPc' = "scored"
    /\ UNCHANGED <<scInput, acqVars, reqVars, orchVars, geoVars, cacheVars,
                   pageVars>>

NextScore ==
    \/ Score_Call
    \/ Score_Return

SpecScore == InitScore /\ [][NextScore]_vars

\* C22: a snapshot whose lastUpdated is older than 24 hours is never graded
\* excellent, whatever the size of the battery and the other checks' outcome.
C22_StaleNeverExcellent ==
    (scPc = "scored" /\ scInput.age > MAX_AGE_HOURS) => scGrade # "excellent"

\* =========================================================================
\* Cross-field properties of the snapshot (checked under SpecAcq)
\* =========================================================================
\* C23: in every snapshot acquisition returns, high soil moisture
\* (soil.moisture >= 0.5) implies that the vegetation index is above the
\* 'critical' threshold of the summary (vegetation.ndvi > 0.2).
C23_MoistSoilHasVegetation ==
    acqPc = "done" =>
        (snapshot.soil.moisture >= H(50) => snapshot.vegetation.ndvi > H(20))

\* C27 (as claimed): when one source fails and the other succeeds, the
\* snapshot holds the successful source's values in the fields it supplies
\* (a valid measurement of the date read as today, the fire count and its
\* tier) and the failed source's fields alone are synthetic.
C27_PartialFailureKeepsOtherSource ==
    acqPc = "done" =>
        /\ (nasaResp.kind = "ok" /\ nasaResp.body.props /\ nasaResp.body.n >= 3
                /\ fireResp.kind # "ok") =>
            LET body == nasaResp.body
                ts == TodayValue(body, "TS_DAY_MODIS")
                nd == TodayValue(body, "NDVI_MODIS")
            IN
            /\ snapshot.fire.activeFires = 0
            /\ ValidMeasurement(body, ts, 0 - 60 * U, 60 * U)
                => snapshot.soil.temperature = toFixed2(ts.v)
            /\ ValidMeasurement(body, nd, 0 - U, U)
                => snapshot.vegetation.ndvi = toFixed2(nd.v)
        /\ (fireResp.kind = "ok" /\ nasaResp.kind # "ok") =>
            /\ snapshot.fire = fetchFireData_Result(fireResp)
            /\ snapshot.weather.currentTemp
                    = toFixed2(DEFAULT_TEMPERATURE + draws.temp * 10)

\* The acquisition's snapshot with the fire source's outcome replaced: what
\* the same climate answer and draws give when the fire feed has no key.
SnapshotWithoutFire ==
    fetchEnvironmentalData(powerData, Fulfilled(fetchFireData_NoKey), draws, 1)

\* The acquisition's snapshot with the climate source's outcome replaced.
SnapshotWithoutClimate ==
    fetchEnvironmentalData(Fulfilled(Null), fireDataResult, draws, 1)

\* Neither source's outcome alters what the snapshot holds of the other:
\* the climate fields do not depend on the fire outcome, nor the fire field
\* on the climate outcome.
SourcesDoNotInterfere ==
    acqPc = "done" =>
        /\ \A f \in SnapshotFields \ {"fire"} :
            snapshot[f] = SnapshotWithoutFire[f]
        /\ snapshot.fire = SnapshotWithoutClimate.fire

\* C28: the forecast of every snapshot acquisition returns has exactly
\* FORECAST_DAYS entries on consecutive days, starting two days before
\* today, whatever the sources did and however few dates the archive covers.
C28_ForecastHasFiveDays ==
    acqPc = "done" =>
        /\ Len(snapshot.weather.forecast) = 5
        /\ snapshot.weather.forecast[1].day = 0 - 2
        /\ \A i \in 1 .. 4 :
            snapshot.weather.forecast[i + 1].day
                = snapshot.weather.forecast[i].day + 1

\* C28 witness: the archive answered with two dates only and the snapshot
\* still has five forecast entries.
C28_Witness ==
    /\ acqPc = "done"
    /\ nasaResp.kind = "ok"
    /\ nasaResp.body.props
    /\ nasaResp.body.n = 2
    /\ Len(snapshot.weather.forecast) = 5
    /\ snapshot.weather.forecast[5].day = 2

\* C29 (as claimed): every forecast entry of a snapshot has
\* min <= temp <= max, whichever of the three are provider values.
C29_ForecastMinTempMax ==
    acqPc = "done" =>
        \A i \in 1 .. Len(snapshot.weather.forecast) :
            /\ snapshot.weather.forecast[i].min <= snapshot.weather.forecast[i].temp
            /\ snapshot.weather.forecast[i].temp <= snapshot.weather.forecast[i].max

C25_OneAcquisitionPerRequest ==
    entry = "getLocationData" =>
        /\ acquisitions <= 1
        /\ glPc = "returned" => EnvOf(report.value) = EnvOf(envData)

\* What the output holds for a task, by that task's settlement alone.
OwnField(task) ==
    IF results[task].status = "fulfilled"
    THEN results[task].value.text
    ELSE FallbackText(task, orchInput)

\* C26: whenever the orchestrator returns, in whatever order the six tasks
\* settled, each output field is given by its own task's settlement:
\* futurePredictions by the trend task, cropRecommendations by the crop task,
\* riskAssessment by the risk task, simplifiedExplanation by the explanation
\* task, environmentalSolutions by the solutions task and healthAdvisory by
\* the health task.
C26_FieldFromOwnTask ==
    orchPc = "returned" =>
        /\ orchResult.value.futurePredictions = OwnField("futureTrendPredictions")
        /\ orchResult.value.cropRecommendations = OwnField("getCropRecommendations")
        /\ orchResult.value.riskAssessment = OwnField("aiRiskAssessment")
        /\ orchResult.value.simplifiedExplanation
                = OwnField("getSimplifiedExplanation")
        /\ orchResult.value.environmentalSolutions
                = OwnField("aiEnvironmentalSolutions")
        /\ orchResult.value.healthAdvisory = OwnField("healthAdvisory")

\* C26 witness: the orchestrator returned with the trend task rejected, the
\* crop task's text in cropRecommendations and the trend task's fallback in
\* futurePredictions.
C26_Witness ==
    /\ orchPc = "returned"
    /\ results["futureTrendPredictions"].status = "rejected"
    /\ Succeeded("getCropRecommendations")
    /\ results["healthAdvisory"].status = "rejected"
    /\ orchResult.value.cropRecommendations = GenText("getCropRecommendations")
    /\ orchResult.value.futurePredictions # orchResult.value.cropRecommendations

\* =========================================================================
\* The page controller: Home.handleLocationSelect (page.tsx 13-45)
\* getLocationData is a server action; the calls of one client are run one
\* after another, so they settle in the order they were made.
\* =========================================================================
\* Largest number of location selections of one page visit.
MaxSelections == 4

\* The Locations the user selects.
PageLocations == {loc \in Locations : loc.lat <= 90 * U}

\* The Report getLocationData returns for a Location.
ReportFor(loc) == [t |-> "report", location |-> loc]

InitPage ==
    /\ AcquisitionUnused
    /\ RequestIdle
    /\ GeoUnused
    /\ CacheUnused
    /\ ScorerUnused
    /\ PageUnused

\* page.tsx 19-29: the synchronous part of handleLocationSelect, up to the
\* await of getLocationData(location).
handleLocationSelect ==
    /\ selections < MaxSelections
    /\ \E loc \in PageLocations :
        /\ selectedLocation' = loc
        /\ inFlight' = Append(inFlight, loc)
    /\ loading' = TRUE
    /\ pageData' = Null
    /\ selections' = selections + 1
    /\ UNCHANGED <<acqVars, reqVars, orchVars, geoVars, cacheVars, scoreVars>>

\* page.tsx 29-34, 42-44: the oldest call returns; its handler resumes, sets
\* the data and, in finally, clears loading.
handleLocationSelect_Resolved ==
    /\ inFlight # << >>
    /\ pageData' = ReportFor(Head(inFlight))
    /\ loading' = FALSE
    /\ inFlight' = Tail(inFlight)
    /\ UNCHANGED <<selectedLocation, selections>>
    /\ UNCHANGED <<acqVars, reqVars, orchVars, geoVars, cacheVars, scoreVars>>

\* page.tsx 35-44: the oldest call rejects; its handler shows the error
\* toast and, in finally, clears loading.
handleLocationSelect_Rejected ==
    /\ inFlight # << >>
    /\ loading' = FALSE
    /\ inFlight' = Tail(inFlight)
    /\ UNCHANGED <<selectedLocation, pageData, selections>>
    /\ UNCHANGED <<acqVars, reqVars, orchVars, geoVars, cacheVars, scoreVars>>

NextPage ==
    \/ handleLocationSelect
    \/ handleLocationSelect_Resolved
    \/ handleLocationSelect_Rejected

SpecPage == InitPage /\ [][NextPage]_vars

\* C30 (as claimed): once no call is pending the data displayed is the
\* result for the Location selected last, and loading is true while the call
\* for the current selection is in flight (it is the youngest call, so it is
\* in flight exactly when some call is).
C30_LatestSelectionWins ==
    /\ (inFlight = << >> /\ pageData # Null)
        => pageData = ReportFor(selectedLocation)
    /\ inFlight # << >> => loading = TRUE

\* C30, first half alone: the data displayed once every call has settled.
SettledDataIsLatest ==
    (inFlight = << >> /\ pageData # Null) => pageData = ReportFor(selectedLocation)

====
